---- MODULE Spec2Model ----
(***************************************************************************)
(* Behavioural risk scoring for proctored assessment sessions.             *)
(*                                                                         *)
(*   src/detector.py  BehavioralDetector: five signal analyzers, the       *)
(*                    aggregator, the intervention policy, the report.     *)
(*   src/app.py       the Flask handlers that own the session store.       *)
(*                                                                         *)
(* Conventions.                                                            *)
(*   - A JSON value that may be null is a sequence: <<>> is Python's None, *)
(*     <<v>> is the value v.  Every handler stores data.get(key), so a     *)
(*     key the request omits is stored as None (the key itself is always   *)
(*     present in a stored event).                                         *)
(*   - An analyzer yields [err, score, factors]; err = TRUE stands for the *)
(*     Python exception (TypeError) that leaves the function.              *)
(*   - A factor string f'...{n}...' is the pair <<template, n>>; a string  *)
(*     without a number carries 0.                                         *)
(*   - A time is a reading of the wall clock (datetime.now()) in seconds.  *)
(*   - The 'timestamp' of an event or a flag is written and never read by  *)
(*     any handler or analyzer; events and flags are modelled without it.  *)
(*     The timestamp of a manual intervention entry is kept: the entries   *)
(*     of `interventions` are compared as whole dictionaries.              *)
(***************************************************************************)
EXTENDS Integers, Sequences, FiniteSets, TLC

VARIABLES sessions, clock, response

vars == <<sessions, clock, response>>

----------------------------------------------------------------------------
(* Python values *)

None == <<>>

Some(v) == <<v>>

IsNone(o) == o = <<>>

Val(o) == o[1]

\* Python truthiness of an optional number: None and 0 are falsy.
Truthy(o) == o # <<>> /\ o[1] # 0

RECURSIVE SumSeq(_)
SumSeq(s) == IF s = <<>> THEN 0 ELSE Head(s) + SumSeq(Tail(s))

RECURSIVE SumSq(_)
SumSq(s) == IF s = <<>> THEN 0 ELSE Head(s) * Head(s) + SumSq(Tail(s))

\* the values of a list of optional numbers none of which is None
Vals(s) == [i \in 1..Len(s) |-> Val(s[i])]

AnyNone(s) == \E i \in 1..Len(s) : IsNone(s[i])

\* Python 3 round(num/den) for den > 0: round half to even.
RoundHalfEven(num, den) ==
    LET q == num \div den
        r == num % den
    IN  IF 2 * r < den THEN q
        ELSE IF 2 * r > den THEN q + 1
        ELSE IF q % 2 = 0 THEN q ELSE q + 1

\* Integer square root (floor); exact on the perfect squares the inputs yield.
RECURSIVE SqrtIter(_, _, _)
SqrtIter(n, lo, hi) ==
    IF lo >= hi THEN lo
    ELSE LET mid == (lo + hi + 1) \div 2
         IN  IF mid * mid <= n THEN SqrtIter(n, mid, hi) ELSE SqrtIter(n, lo, mid - 1)

\* 46340 is the largest root whose square is a 32-bit integer (the integers of TLC)
Sqrt(n) == SqrtIter(n, 0, IF n < 46340 THEN n ELSE 46340)

\* np.std(v) < t  and  np.std(v) > t  for t >= 0, as n*sum(v^2) - sum(v)^2
\* against (t*n)^2 (population variance times n^2).
VarN2(v) == Len(v) * SumSq(v) - SumSeq(v) * SumSeq(v)

StdBelow(v, t) == VarN2(v) < t * t * Len(v) * Len(v)

StdAbove(v, t) == VarN2(v) > t * t * Len(v) * Len(v)

Raise == [err |-> TRUE, score |-> 0, factors |-> <<>>]

Ok(s, f) == [err |-> FALSE, score |-> s, factors |-> f]

----------------------------------------------------------------------------
(* src/detector.py: the five analyzers.  Each analyzer is split into        *)
(* operators that take the values its code computes once as parameters.    *)

blur_events(session_data) ==
    SelectSeq(session_data.window_events, LAMBDA e : e.event_type = "blur")

\* _analyze_window_behavior: the frequency penalty for n > 0 blur events
WindowFrequency(n) ==
    IF n > 5 THEN Ok(35, << <<"Excessive window switching (CRITICAL)", n>> >>)
    ELSE IF n > 3 THEN Ok(25, << <<"Multiple window switches (HIGH)", n>> >>)
    ELSE Ok(10 * n, << <<"Window switched time(s)", n>> >>)

\* _analyze_window_behavior: the absence penalty, avg_duration = total / n
WindowAbsence(freq, n, total) ==
    IF total > 30000 * n
    THEN Ok(freq.score + 20,
            Append(freq.factors,
                   <<"Prolonged window absence: avg s", RoundHalfEven(total, 1000 * n)>>))
    ELSE freq

\* _analyze_window_behavior over the durations of the blur events
WindowOver(durations) ==
    IF Len(durations) = 0 THEN Ok(0, <<>>)
    ELSE IF AnyNone(durations) THEN Raise            \* np.mean over a None
    ELSE WindowAbsence(WindowFrequency(Len(durations)), Len(durations),
                       SumSeq(Vals(durations)))

\* _analyze_window_behavior
AnalyzeWindowBehavior(session_data) ==
    WindowOver([i \in 1..Len(blur_events(session_data)) |->
                   blur_events(session_data)[i].duration])

\* PasteTier with the top tier from three paste events on
PasteTier_FromThree(n) ==
    IF n >= 3 THEN Ok(50, << <<"Multiple paste operations (CRITICAL)", n>> >>)
    ELSE IF n > 1 THEN Ok(35, << <<"Multiple pastes detected", n>> >>)
    ELSE Ok(25, << <<"Paste operation detected", 0>> >>)

\* _analyze_paste_behavior: the count tier for n > 0 paste events
PasteTier(n) ==
    IF n > 3 THEN Ok(50, << <<"Multiple paste operations (CRITICAL)", n>> >>)
    ELSE IF n > 1 THEN Ok(35, << <<"Multiple pastes detected", n>> >>)
    ELSE Ok(25, << <<"Paste operation detected", 0>> >>)

\* _analyze_paste_behavior: the large paste penalty
PasteSize(tier, total_pasted_chars) ==
    IF total_pasted_chars > 500
    THEN Ok(tier.score + 15,
            Append(tier.factors,
                   <<"Large amount of pasted text: characters", total_pasted_chars>>))
    ELSE tier

\* _analyze_paste_behavior over the lengths of the paste events
PasteOver(lengths) ==
    IF Len(lengths) = 0 THEN Ok(0, <<>>)
    ELSE IF AnyNone(lengths) THEN Raise              \* sum() over a None
    ELSE PasteSize(PasteTier(Len(lengths)), SumSeq(Vals(lengths)))

\* AnalyzePasteBehavior that forgets the pastes of a session older than 30
\* minutes (it reads the clock)
AnalyzePasteBehavior_Aging(session_data) ==
    IF session_data.start_time.kind = "ok" /\ clock - session_data.start_time.t > 1800
    THEN Ok(0, <<>>)
    ELSE PasteOver([i \in 1..Len(session_data.paste_events) |-> session_data.paste_events[i].length])

\* _analyze_paste_behavior
AnalyzePasteBehavior(session_data) ==
    PasteOver([i \in 1..Len(session_data.paste_events) |-> session_data.paste_events[i].length])

\* _analyze_typing_patterns: the four independent checks as flags
TypingChecks(speeds, total_keys, total_backspaces) ==
    [fast |-> Len(speeds) > 0 /\ SumSeq(speeds) < 50 * Len(speeds),
     uniform |-> Len(speeds) > 0 /\ StdBelow(speeds, 20) /\ Len(speeds) > 5,
     \* backspace_ratio < 0.02 and total_keys > 100
     low_err |-> total_keys > 0 /\ 50 * total_backspaces < total_keys /\ total_keys > 100,
     \* backspace_ratio > 0.3
     high_err |-> total_keys > 0 /\ 10 * total_backspaces > 3 * total_keys,
     avg_speed |-> IF Len(speeds) > 0 THEN RoundHalfEven(SumSeq(speeds), Len(speeds)) ELSE 0]

\* _analyze_typing_patterns: score and factors of the checks that fired
TypingResult(c) ==
    Ok((IF c.fast THEN 20 ELSE 0) + (IF c.uniform THEN 15 ELSE 0)
       + (IF c.low_err THEN 10 ELSE 0) + (IF c.high_err THEN 8 ELSE 0),
       (IF c.fast
        THEN << <<"Unusually fast typing: ms (possible automation)", c.avg_speed>> >>
        ELSE <<>>)
       \o (IF c.uniform THEN << <<"Typing rhythm too consistent (suspicious pattern)", 0>> >>
           ELSE <<>>)
       \o (IF c.low_err THEN << <<"Suspiciously low error rate (possible copy-paste)", 0>> >>
           ELSE <<>>)
       \o (IF c.high_err THEN << <<"High correction rate (unusual editing pattern)", 0>> >>
           ELSE <<>>))

\* _analyze_typing_patterns over the fields of the keyboard events
TypingOver(typing_speeds, key_counts, backspace_counts) ==
    IF Len(key_counts) < 2 THEN Ok(0, <<>>)
    ELSE IF AnyNone(key_counts) \/ AnyNone(backspace_counts) THEN Raise   \* sum() over a None
    ELSE TypingResult(TypingChecks(Vals(SelectSeq(typing_speeds, Truthy)),
                                   SumSeq(Vals(key_counts)),
                                   SumSeq(Vals(backspace_counts))))

\* _analyze_typing_patterns
AnalyzeTypingPatterns(session_data) ==
    TypingOver([i \in 1..Len(session_data.keyboard_events) |->
                   session_data.keyboard_events[i].typing_speed],
               [i \in 1..Len(session_data.keyboard_events) |->
                   session_data.keyboard_events[i].key_count],
               [i \in 1..Len(session_data.keyboard_events) |->
                   session_data.keyboard_events[i].backspace_count])

\* the distance between mouse_events[i-1] and mouse_events[i]
Distance(prev, curr) ==
    Sqrt((Val(curr.x) - Val(prev.x)) * (Val(curr.x) - Val(prev.x))
         + (Val(curr.y) - Val(prev.y)) * (Val(curr.y) - Val(prev.y)))

\* _analyze_mouse_patterns: the two independent checks on the movements
MouseResult(regular, erratic) ==
    Ok((IF regular THEN 12 ELSE 0) + (IF erratic THEN 8 ELSE 0),
       (IF regular THEN << <<"Mouse movement pattern too regular (bot-like)", 0>> >> ELSE <<>>)
       \o (IF erratic THEN << <<"Erratic mouse behavior detected", 0>> >> ELSE <<>>))

MouseOver(movements) ==
    MouseResult(StdBelow(movements, 5) /\ Len(movements) > 20, StdAbove(movements, 200))

\* AnalyzeMousePatterns with the low-activity test off by one (< 4 events)
AnalyzeMousePatterns_OffByOne(session_data) ==
    IF Len(session_data.mouse_events) < 4
    THEN Ok(15, << <<"Very low mouse activity (possible automation)", 0>> >>)
    ELSE IF \E i \in 1..Len(session_data.mouse_events) :
               IsNone(session_data.mouse_events[i].x) \/ IsNone(session_data.mouse_events[i].y)
    THEN Raise
    ELSE MouseOver([i \in 1..(Len(session_data.mouse_events) - 1) |->
                       Distance(session_data.mouse_events[i], session_data.mouse_events[i + 1])])

\* _analyze_mouse_patterns
AnalyzeMousePatterns(session_data) ==
    IF Len(session_data.mouse_events) < 5
    THEN Ok(15, << <<"Very low mouse activity (possible automation)", 0>> >>)
    ELSE IF \E i \in 1..Len(session_data.mouse_events) :
               IsNone(session_data.mouse_events[i].x) \/ IsNone(session_data.mouse_events[i].y)
    THEN Raise                                       \* None - None
    ELSE MouseOver([i \in 1..(Len(session_data.mouse_events) - 1) |->
                       Distance(session_data.mouse_events[i], session_data.mouse_events[i + 1])])

\* _analyze_temporal_patterns: the two independent checks on elapsed seconds
TemporalResult(quick, idle, elapsed) ==
    Ok((IF quick THEN 25 ELSE 0) + (IF idle THEN 10 ELSE 0),
       (IF quick
        THEN << <<"Suspiciously fast completion: tenths of minutes",
                  RoundHalfEven(elapsed * 10, 60)>> >>
        ELSE <<>>)
       \o (IF idle THEN << <<"Extended idle time detected", 0>> >> ELSE <<>>))

TemporalOver(elapsed, keyboard_events) ==
    TemporalResult(elapsed < 120 /\ keyboard_events > 10, elapsed > 1800, elapsed)

\* _analyze_temporal_patterns; start_time is [kind, t] with kind "missing"
\* (no value or an empty one), "bad" (fromisoformat raises, caught) or "ok".
AnalyzeTemporalPatterns(session_data, now) ==
    IF session_data.start_time.kind # "ok" THEN Ok(0, <<>>)
    ELSE TemporalOver(now - session_data.start_time.t, Len(session_data.keyboard_events))

----------------------------------------------------------------------------
(* src/detector.py: aggregator, intervention policy, report *)

\* risk_score = min(risk_score, 100)
Cap(risk_score) == IF risk_score < 100 THEN risk_score ELSE 100

\* SeverityOf with inclusive thresholds (>= for >)
SeverityOf_Inclusive(risk_score) ==
    IF risk_score >= 70 THEN "critical"
    ELSE IF risk_score >= 50 THEN "high"
    ELSE IF risk_score >= 30 THEN "medium"
    ELSE "low"

\* the severity ladder of calculate_risk_score
SeverityOf(risk_score) ==
    IF risk_score > 70 THEN "critical"
    ELSE IF risk_score > 50 THEN "high"
    ELSE IF risk_score > 30 THEN "medium"
    ELSE "low"

\* the dictionary calculate_risk_score returns.  All five contributions are
\* integers, so round(risk_score, 2) is the capped sum itself.
RiskAnalysis(risk_score, w, p, t, m, tm) ==
    [err |-> FALSE,
     risk_score |-> risk_score,
     severity |-> SeverityOf(risk_score),
     risk_factors |-> w.factors \o p.factors \o t.factors \o m.factors \o tm.factors,
     detailed_analysis |-> [window_score |-> w.score,
                            paste_score |-> p.score,
                            typing_score |-> t.score,
                            mouse_score |-> m.score,
                            temporal_score |-> tm.score]]

Aggregate(w, p, t, m, tm) ==
    IF w.err \/ p.err \/ t.err \/ m.err \/ tm.err
    THEN [err |-> TRUE]
    ELSE RiskAnalysis(Cap(w.score + p.score + t.score + m.score + tm.score), w, p, t, m, tm)

\* calculate_risk_score at wall-clock time `now`
CalculateRiskScore(session_data, now) ==
    Aggregate(AnalyzeWindowBehavior(session_data),
              AnalyzePasteBehavior(session_data),
              AnalyzeTypingPatterns(session_data),
              AnalyzeMousePatterns(session_data),
              AnalyzeTemporalPatterns(session_data, now))

\* An entry of a session's interventions list.  A key the dictionary does not
\* have is None here, so equality of entries is equality of the dictionaries.
Directive(type, message, action) ==
    [type |-> type, message |-> message, action |-> Some(action), timestamp |-> None]

LockDirective ==
    Directive("lock_assessment", "Assessment locked due to critical integrity violations",
              "immediate_lock")

WarningDirective ==
    Directive("warning",
              "High-risk behavior detected. Your session is being closely monitored.",
              "show_warning")

CautionDirective ==
    Directive("caution", "Please maintain focus on your assessment window.", "show_caution")

\* ShouldIntervene with `if` for `elif`: every matching tier adds its directive
ShouldIntervene_NoElse(risk_score, severity) ==
    (IF severity = "critical" \/ risk_score > 70 THEN <<LockDirective>> ELSE <<>>)
    \o (IF severity = "high" \/ risk_score > 50 THEN <<WarningDirective>> ELSE <<>>)
    \o (IF severity = "medium" \/ risk_score > 30 THEN <<CautionDirective>> ELSE <<>>)

\* should_intervene
ShouldIntervene(risk_score, severity) ==
    IF severity = "critical" \/ risk_score > 70 THEN <<LockDirective>>
    ELSE IF severity = "high" \/ risk_score > 50 THEN <<WarningDirective>>
    ELSE IF severity = "medium" \/ risk_score > 30 THEN <<CautionDirective>>
    ELSE <<>>

\* _get_verdict
GetVerdict(risk_score) ==
    IF risk_score > 70 THEN "HIGH RISK - Manual review required"
    ELSE IF risk_score > 50 THEN "MODERATE RISK - Additional verification recommended"
    ELSE IF risk_score > 30 THEN "LOW RISK - Minor concerns noted"
    ELSE "MINIMAL RISK - Normal behavior pattern"

\* _get_recommendations
GetRecommendations(risk_analysis) ==
    IF risk_analysis.severity = "critical"
    THEN <<"Immediate manual review by proctor", "Consider retake under supervised conditions">>
    ELSE IF risk_analysis.severity = "high"
    THEN <<"Review session recording if available", "Contact student for clarification">>
    ELSE IF risk_analysis.severity = "medium"
    THEN <<"Flag for review", "Monitor in future assessments">>
    ELSE <<"No action required">>

\* generate_report
GenerateReport(session_data, risk_analysis, now) ==
    [session_id |-> session_data.session_id,
     timestamp |-> now,
     risk_score |-> risk_analysis.risk_score,
     severity |-> risk_analysis.severity,
     verdict |-> GetVerdict(risk_analysis.risk_score),
     summary |-> risk_analysis.risk_factors,
     detailed_metrics |-> risk_analysis.detailed_analysis,
     recommendations |-> GetRecommendations(risk_analysis)]

----------------------------------------------------------------------------
(* src/app.py: the session store *)

\* `sessions` is the dictionary of app.py as the sequence of its values in
\* insertion order (a Python dict keeps it; assigning to a key it already has
\* replaces the value in place).
Has(store, session_id) == \E i \in 1..Len(store) : store[i].session_id = session_id

Idx(store, session_id) == CHOOSE i \in 1..Len(store) : store[i].session_id = session_id

Get(store, session_id) == store[Idx(store, session_id)]

Put(store, session_id, rec) ==
    IF Has(store, session_id)
    THEN [store EXCEPT ![Idx(store, session_id)] = rec]
    ELSE Append(store, rec)

In(x, list) == \E i \in 1..Len(list) : list[i] = x

\* the dictionary start_session stores (user_id, user_name, role and the
\* never-written risk_scores are not read by any modelled code)
NewSession(session_id, now) ==
    [session_id |-> session_id,
     start_time |-> [kind |-> "ok", t |-> now],
     mouse_events |-> <<>>,
     keyboard_events |-> <<>>,
     window_events |-> <<>>,
     paste_events |-> <<>>,
     copy_events |-> <<>>,
     flags |-> <<>>,
     interventions |-> <<>>,
     locked |-> FALSE]

\* StoreIntervention without the `not in` test
StoreIntervention_NoCheck(session, intervention) ==
    [session EXCEPT
        !.interventions = Append(@, intervention),
        !.locked = IF intervention.action = Some("immediate_lock") THEN TRUE ELSE @]

\* StoreIntervention that also records a flag when it locks the session
StoreIntervention_Flagging(session, intervention) ==
    IF In(intervention, session.interventions) THEN session
    ELSE [session EXCEPT
             !.interventions = Append(@, intervention),
             !.locked = IF intervention.action = Some("immediate_lock") THEN TRUE ELSE @,
             !.flags = IF intervention.action = Some("immediate_lock")
                       THEN Append(@, [type |-> "locked", severity |-> "critical",
                                       length |-> None])
                       ELSE @]

\* get_ml_risk_score, lines 262-267: one directive
StoreIntervention(session, intervention) ==
    IF In(intervention, session.interventions) THEN session
    ELSE [session EXCEPT
             !.interventions = Append(@, intervention),
             !.locked = IF intervention.action = Some("immediate_lock") THEN TRUE ELSE @]

\* get_ml_risk_score, lines 259-267: the loop that stores the directives
RECURSIVE StoreInterventions(_, _)
StoreInterventions(session, interventions) ==
    IF interventions = <<>> THEN session
    ELSE StoreInterventions(StoreIntervention(session, Head(interventions)),
                            Tail(interventions))

\* get_ml_risk_score, lines 271-277: the returned dictionary, and the store
Returned(store, session_id, risk_analysis, interventions, after) ==
    [err |-> FALSE,
     store |-> Put(store, session_id, after),
     risk_score |-> risk_analysis.risk_score,
     severity |-> risk_analysis.severity,
     risk_factors |-> risk_analysis.risk_factors,
     interventions |-> interventions,
     locked |-> after.locked]

Intervened(store, session, risk_analysis, interventions) ==
    Returned(store, session.session_id, risk_analysis, interventions,
             StoreInterventions(session, interventions))

Analysed(store, session, risk_analysis) ==
    IF risk_analysis.err
    THEN [err |-> TRUE, store |-> store]             \* the exception leaves the function
    ELSE Intervened(store, session, risk_analysis,
                    ShouldIntervene(risk_analysis.risk_score, risk_analysis.severity))

\* get_ml_risk_score: [err, store, and the returned dictionary]
GetMlRiskScore(store, session_id, now) ==
    IF ~Has(store, session_id)
    THEN [err |-> FALSE, store |-> store, risk_score |-> 0, severity |-> "low",
          risk_factors |-> <<>>, interventions |-> <<>>, locked |-> FALSE]
    ELSE Analysed(store, Get(store, session_id),
                  CalculateRiskScore(Get(store, session_id), now))

\* the entry manual_intervention appends
ManualEntry(type, message, now) ==
    [type |-> type, message |-> message, action |-> None, timestamp |-> Some(now)]

Flag(type, severity, length) == [type |-> type, severity |-> severity, length |-> length]

----------------------------------------------------------------------------
(* Bounds and inputs of the service model *)

SessionIds == {"s1"}

\* recorded events per session, over the five lists
MaxEvents == 2

\* manual lock/unlock entries per session
MaxManual == 2

ApiTimes == {0, 2000}

MouseInputs == {[x |-> Some(0), y |-> Some(0), type |-> "mousemove"]}

KeyboardInputs == {[key_count |-> Some(10), typing_speed |-> None, backspace_count |-> Some(0)]}

WindowInputs == {[event_type |-> "blur", duration |-> None],
                 [event_type |-> "blur", duration |-> Some(40000)],
                 [event_type |-> "focus", duration |-> None]}

PasteInputs == {[length |-> Some(600)]}

CopyInputs == {[length |-> Some(0)]}

ManualActions == {"lock", "unlock", "reset"}

NumEvents(session) ==
    Len(session.mouse_events) + Len(session.keyboard_events) + Len(session.window_events)
    + Len(session.paste_events) + Len(session.copy_events)

NumManual(session) ==
    Len(SelectSeq(session.interventions, LAMBDA e : e.timestamp # None))

Room(session_id) ==
    Has(sessions, session_id) => NumEvents(Get(sessions, session_id)) < MaxEvents

Invalid(op) == [op |-> op, code |-> 400]

----------------------------------------------------------------------------
(* src/app.py: the handlers, one action each *)

\* POST /api/session/start
StartSession(session_id) ==
    /\ sessions' = Put(sessions, session_id, NewSession(session_id, clock))
    /\ response' = [op |-> "start_session", code |-> 200, session_id |-> session_id]
    /\ UNCHANGED clock

\* POST /api/track/mouse
TrackMouse(session_id, data) ==
    /\ Room(session_id)
    /\ IF Has(sessions, session_id)
       THEN /\ sessions' = Put(sessions, session_id,
                               [Get(sessions, session_id) EXCEPT
                                   !.mouse_events = Append(@, data)])
            /\ response' = [op |-> "track_mouse", code |-> 200]
       ELSE /\ response' = Invalid("track_mouse")
            /\ UNCHANGED sessions
    /\ UNCHANGED clock

\* POST /api/track/keyboard
TrackKeyboard(session_id, data) ==
    /\ Room(session_id)
    /\ IF Has(sessions, session_id)
       THEN /\ sessions' = Put(sessions, session_id,
                               [Get(sessions, session_id) EXCEPT
                                   !.keyboard_events = Append(@, data)])
            /\ response' = [op |-> "track_keyboard", code |-> 200]
       ELSE /\ response' = Invalid("track_keyboard")
            /\ UNCHANGED sessions
    /\ UNCHANGED clock

\* the response of a handler that ends in get_ml_risk_score
ScoredResponse(op, risk_data) ==
    IF risk_data.err
    THEN [op |-> op, code |-> 500]
    ELSE [op |-> op, code |-> 200,
          risk_score |-> risk_data.risk_score,
          severity |-> risk_data.severity,
          risk_factors |-> risk_data.risk_factors,
          interventions |-> risk_data.interventions,
          locked |-> risk_data.locked]

ScoredStep(op, risk_data) ==
    /\ sessions' = risk_data.store
    /\ response' = ScoredResponse(op, risk_data)

\* a handler that ends in get_ml_risk_score: what it stored before is saved
\* before the score is computed, so it stays when the score raises
Scored(op, store, session_id) == ScoredStep(op, GetMlRiskScore(store, session_id, clock))

\* POST /api/track/window
TrackWindow(session_id, data) ==
    /\ Room(session_id)
    /\ IF Has(sessions, session_id)
       THEN LET session == Get(sessions, session_id)
                event == [session EXCEPT !.window_events = Append(@, data)]
                flagged == IF data.event_type = "blur"
                           THEN [event EXCEPT
                                    !.flags = Append(@, Flag("window_switch", "medium", None))]
                           ELSE event
            IN  Scored("track_window", Put(sessions, session_id, flagged), session_id)
       ELSE /\ response' = Invalid("track_window")
            /\ UNCHANGED sessions
    /\ UNCHANGED clock

\* POST /api/track/paste
TrackPaste(session_id, data) ==
    /\ Room(session_id)
    /\ IF Has(sessions, session_id)
       THEN LET session == Get(sessions, session_id)
                flagged == [session EXCEPT
                               !.paste_events = Append(@, data),
                               !.flags = Append(@, Flag("paste_detected", "high", data.length))]
            IN  Scored("track_paste", Put(sessions, session_id, flagged), session_id)
       ELSE /\ response' = Invalid("track_paste")
            /\ UNCHANGED sessions
    /\ UNCHANGED clock

\* POST /api/track/copy
TrackCopy(session_id, data) ==
    /\ Room(session_id)
    /\ IF Has(sessions, session_id)
       THEN /\ sessions' = Put(sessions, session_id,
                               [Get(sessions, session_id) EXCEPT
                                   !.copy_events = Append(@, data),
                                   !.flags = Append(@, Flag("copy_detected", "low", None))])
            /\ response' = [op |-> "track_copy", code |-> 200]
       ELSE /\ response' = Invalid("track_copy")
            /\ UNCHANGED sessions
    /\ UNCHANGED clock

\* GET /api/risk_score/<session_id>
GetRiskScore(session_id) ==
    /\ IF Has(sessions, session_id)
       THEN Scored("get_risk_score", sessions, session_id)
       ELSE /\ response' = Invalid("get_risk_score")
            /\ UNCHANGED sessions
    /\ UNCHANGED clock

\* get_report, the response
ReportResponse(session, risk_analysis) ==
    IF risk_analysis.err
    THEN [op |-> "get_report", code |-> 500]
    ELSE [op |-> "get_report", code |-> 200,
          analysis |-> risk_analysis,
          report |-> GenerateReport(session, risk_analysis, clock)]

\* GET /api/report/<session_id>
GetReport(session_id) ==
    /\ IF Has(sessions, session_id)
       THEN response' = ReportResponse(Get(sessions, session_id),
                                       CalculateRiskScore(Get(sessions, session_id), clock))
       ELSE response' = Invalid("get_report")
    /\ UNCHANGED <<sessions, clock>>

\* get_sessions, the loop: sessions i..Len(store) are still to be scored; a
\* score that raises ends the request with the earlier sessions already updated
RECURSIVE ScoreAll(_, _)
ScoreNext(risk_data, i) ==
    IF risk_data.err THEN [err |-> TRUE, store |-> risk_data.store]
    ELSE ScoreAll(risk_data.store, i + 1)

ScoreAll(store, i) ==
    IF i > Len(store) THEN [err |-> FALSE, store |-> store]
    ELSE ScoreNext(GetMlRiskScore(store, store[i].session_id, clock), i)

SessionsStep(all) ==
    /\ sessions' = all.store
    /\ response' = IF all.err THEN [op |-> "get_sessions", code |-> 500]
                   ELSE [op |-> "get_sessions", code |-> 200,
                         locked |-> [i \in 1..Len(all.store) |-> all.store[i].locked]]

\* GET /api/sessions
GetSessions ==
    /\ SessionsStep(ScoreAll(sessions, 1))
    /\ UNCHANGED clock

\* manual_intervention, lines 345-358
Intervene(session, action, now) ==
    IF action = "unlock"
    THEN [session EXCEPT
             !.locked = FALSE,
             !.interventions =
                 Append(@, ManualEntry("manual_unlock", "Manually unlocked by admin", now))]
    ELSE IF action = "lock"
    THEN [session EXCEPT
             !.locked = TRUE,
             !.interventions =
                 Append(@, ManualEntry("manual_lock", "Manually locked by admin", now))]
    ELSE session

ManualStep(session_id, action, after) ==
    /\ sessions' = Put(sessions, session_id, after)
    /\ response' = [op |-> "manual_intervention", code |-> 200,
                    action |-> action, locked |-> after.locked]

\* POST /api/intervention/<session_id>
ManualIntervention(session_id, action) ==
    /\ Has(sessions, session_id) => NumManual(Get(sessions, session_id)) < MaxManual
    /\ IF Has(sessions, session_id)
       THEN ManualStep(session_id, action, Intervene(Get(sessions, session_id), action, clock))
       ELSE /\ response' = Invalid("manual_intervention")
            /\ UNCHANGED sessions
    /\ UNCHANGED clock

\* the wall clock moves on between two requests; two requests may also read
\* the same datetime.now() (the resolution of the clock, a repeated local hour)
Advance(times) ==
    /\ \E t \in times : t > clock /\ clock' = t
    /\ UNCHANGED <<sessions, response>>

Tick == Advance(ApiTimes)

Init ==
    /\ sessions = <<>>
    /\ clock = 0
    /\ response = [op |-> "none", code |-> 0]

Next ==
    \/ \E session_id \in SessionIds : StartSession(session_id)
    \/ \E session_id \in SessionIds, data \in MouseInputs : TrackMouse(session_id, data)
    \/ \E session_id \in SessionIds, data \in KeyboardInputs : TrackKeyboard(session_id, data)
    \/ \E session_id \in SessionIds, data \in WindowInputs : TrackWindow(session_id, data)
    \/ \E session_id \in SessionIds, data \in PasteInputs : TrackPaste(session_id, data)
    \/ \E session_id \in SessionIds, data \in CopyInputs : TrackCopy(session_id, data)
    \/ \E session_id \in SessionIds : GetRiskScore(session_id)
    \/ \E session_id \in SessionIds : GetReport(session_id)
    \/ GetSessions
    \/ \E session_id \in SessionIds, action \in ManualActions :
           ManualIntervention(session_id, action)
    \/ Tick

Spec == Init /\ [][Next]_vars

----------------------------------------------------------------------------
(* The scoring engine on its own: calculate_risk_score and generate_report  *)
(* as get_report calls them, over session records drawn from bounded sets   *)
(* (specification SpecScore).                                               *)

ScoreTimes == {0, 60, 1000, 2000}

Repeat(n, e) == [i \in 1..n |-> e]

Alternate(n, a, b) == [i \in 1..n |-> IF i % 2 = 1 THEN a ELSE b]

MouseAt(x, y) == [x |-> Some(x), y |-> Some(y), type |-> "mousemove"]

\* the pointer rests two events at (0,0), then two at (600,800): movements 1000, 0, 1000, ...
Jumping(n) == [i \in 1..n |-> IF i % 4 \in {2, 3} THEN MouseAt(600, 800) ELSE MouseAt(0, 0)]

MouseOptions ==
    {<<>>, Repeat(4, MouseAt(0, 0)), Repeat(5, MouseAt(0, 0)), Jumping(5),
     Alternate(22, MouseAt(0, 0), MouseAt(3, 4))}

Keys(key_count, typing_speed, backspace_count) ==
    [key_count |-> Some(key_count), typing_speed |-> typing_speed,
     backspace_count |-> Some(backspace_count)]

KeyboardOptions ==
    {<<>>,
     Repeat(1, Keys(10, Some(40), 0)),
     Repeat(2, Keys(10, None, 0)),
     Repeat(2, Keys(10, Some(40), 5)),
     Repeat(6, Keys(60, Some(100), 0)),
     Alternate(11, Keys(10, Some(100), 1), Keys(10, Some(200), 1))}

Blur(duration) == [event_type |-> "blur", duration |-> duration]

Focus == [event_type |-> "focus", duration |-> None]

WindowOptions ==
    {<<>>,
     <<Focus>>,
     <<Blur(None)>>,
     <<Blur(Some(40000)), Focus>>,
     Repeat(3, Blur(Some(10000))),
     Repeat(4, Blur(Some(40000))),
     Repeat(6, Blur(Some(40000)))}

Paste(length) == [length |-> Some(length)]

PasteOptions ==
    {<<>>, Repeat(1, Paste(150)), Repeat(1, Paste(600)), Repeat(2, Paste(150)),
     Repeat(2, Paste(250)), Repeat(3, Paste(200)), Repeat(4, Paste(100)),
     Repeat(4, Paste(150))}

CopyOptions == {<<>>, <<[length |-> Some(0)]>>}

StartOptions == {[kind |-> "missing", t |-> 0], [kind |-> "bad", t |-> 0], [kind |-> "ok", t |-> 0]}

ScoreRecords ==
    {[NewSession("s1", 0) EXCEPT
         !.start_time = st, !.mouse_events = m, !.keyboard_events = k,
         !.window_events = w, !.paste_events = p, !.copy_events = c] :
     st \in StartOptions, m \in MouseOptions, k \in KeyboardOptions,
     w \in WindowOptions, p \in PasteOptions, c \in CopyOptions}

InitScore ==
    /\ sessions \in {<<r>> : r \in ScoreRecords}
    /\ clock = 0
    /\ response = [op |-> "none", code |-> 0]

TickScore == Advance(ScoreTimes)

\* a client asks for the report a second time and keeps both answers
GetReportAgain(session_id) ==
    /\ response.op = "get_report"
    /\ response.code # 400
    /\ response' = [op |-> "get_report_twice", code |-> 0,
                    first |-> response,
                    second |-> ReportResponse(Get(sessions, session_id),
                                              CalculateRiskScore(Get(sessions, session_id),
                                                                 clock))]
    /\ UNCHANGED <<sessions, clock>>

NextScore ==
    \/ \E session_id \in SessionIds : GetReport(session_id)
    \/ \E session_id \in SessionIds : GetReportAgain(session_id)
    \/ TickScore

SpecScore == InitScore /\ [][NextScore]_vars

----------------------------------------------------------------------------
(* The intervention policy on its own: should_intervene over every pair of  *)
(* a score and a severity (specification SpecIntervene).                    *)

Severities == {"low", "medium", "high", "critical"}

Scores == 0..100

InitIntervene ==
    /\ sessions = <<>>
    /\ clock = 0
    /\ response \in {[op |-> "policy_input", code |-> 0, risk_score |-> r, severity |-> v] :
                     r \in Scores, v \in Severities}

Decide ==
    /\ response.op = "policy_input"
    /\ response' = [op |-> "should_intervene", code |-> 0,
                    risk_score |-> response.risk_score, severity |-> response.severity,
                    interventions |-> ShouldIntervene(response.risk_score, response.severity)]
    /\ UNCHANGED <<sessions, clock>>

NextIntervene == Decide

SpecIntervene == InitIntervene /\ [][NextIntervene]_vars

----------------------------------------------------------------------------
(* get_ml_risk_score under the threaded server of app.run: no lock is taken  *)
(* anywhere in app.py, so the requests of several connections run the        *)
(* function at the same time and their statements interleave                 *)

\* In SpecThreads `response` holds the requests in flight, one per server
\* thread: the position of each in get_ml_risk_score, its local variable
\* `interventions`, the loop index, the directives it appended and, at the end,
\* the status and 'locked' of its answer.  All evaluate session "s1".
NumThreads == 2

Threads == 1..NumThreads

IdleThread ==
    [pc |-> "idle", interventions |-> <<>>, i |-> 0, appended |-> <<>>,
     code |-> 0, locked |-> FALSE]

\* the records the threads find: no paste, one large paste, two large pastes
ThreadRecords ==
    {[NewSession("s1", 0) EXCEPT !.paste_events = paste_events] :
         paste_events \in {<<>>, Repeat(1, Paste(600)), Repeat(2, Paste(600))}}

InFlight(threads) == [op |-> "get_ml_risk_score", code |-> 0, threads |-> threads]

\* lines 260-261: the for loop takes the next directive, or is over
LoopAt(thread, i) ==
    IF i <= Len(thread.interventions)
    THEN [thread EXCEPT !.pc = "check", !.i = i]
    ELSE [thread EXCEPT !.pc = "return", !.i = i]

\* lines 244-254: the session is looked up, scored, and the policy asked
Begun(thread, risk_analysis) ==
    IF risk_analysis.err
    THEN [thread EXCEPT !.pc = "done", !.code = 500]
    ELSE LoopAt([thread EXCEPT !.interventions =
                     ShouldIntervene(risk_analysis.risk_score, risk_analysis.severity)], 1)

Begin(t) ==
    /\ response.threads[t].pc = "idle"
    /\ response' = InFlight([response.threads EXCEPT
                        ![t] = Begun(@, CalculateRiskScore(Get(sessions, "s1"), clock))])
    /\ UNCHANGED <<sessions, clock>>

\* line 262: `if intervention not in session['interventions']`
Checked(thread, session) ==
    IF In(thread.interventions[thread.i], session.interventions)
    THEN LoopAt(thread, thread.i + 1)
    ELSE [thread EXCEPT !.pc = "append"]

Check(t) ==
    /\ response.threads[t].pc = "check"
    /\ response' = InFlight([response.threads EXCEPT
                        ![t] = Checked(@, Get(sessions, "s1"))])
    /\ UNCHANGED <<sessions, clock>>

\* lines 263-266: the append, then the test of the action
Appended(thread) ==
    IF thread.interventions[thread.i].action = Some("immediate_lock")
    THEN [thread EXCEPT !.pc = "lock", !.appended = Append(@, thread.interventions[thread.i])]
    ELSE LoopAt([thread EXCEPT !.appended = Append(@, thread.interventions[thread.i])],
                thread.i + 1)

AppendDirective(t) ==
    /\ response.threads[t].pc = "append"
    /\ sessions' = Put(sessions, "s1",
                       [Get(sessions, "s1") EXCEPT
                           !.interventions =
                               Append(@, response.threads[t].interventions[response.threads[t].i])])
    /\ response' = InFlight([response.threads EXCEPT ![t] = Appended(@)])
    /\ UNCHANGED clock

\* line 267: session['locked'] = True
SetLocked(t) ==
    /\ response.threads[t].pc = "lock"
    /\ sessions' = Put(sessions, "s1", [Get(sessions, "s1") EXCEPT !.locked = TRUE])
    /\ response' = InFlight([response.threads EXCEPT
                        ![t] = LoopAt(@, response.threads[t].i + 1)])
    /\ UNCHANGED clock

\* lines 269-277: save_data and the returned dictionary
Return(t) ==
    /\ response.threads[t].pc = "return"
    /\ response' = InFlight([response.threads EXCEPT
                        ![t] = [@ EXCEPT !.pc = "done", !.code = 200,
                                         !.locked = Get(sessions, "s1").locked]])
    /\ UNCHANGED <<sessions, clock>>

InitThreads ==
    /\ \E rec \in ThreadRecords : sessions = <<rec>>
    /\ clock = 0
    /\ response = InFlight([t \in Threads |-> IdleThread])

NextThreads ==
    \/ \E t \in Threads : Begin(t)
    \/ \E t \in Threads : Check(t)
    \/ \E t \in Threads : AppendDirective(t)
    \/ \E t \in Threads : SetLocked(t)
    \/ \E t \in Threads : Return(t)
    \/ Tick

SpecThreads == InitThreads /\ [][NextThreads]_vars

----------------------------------------------------------------------------
(* Claims about the service (specification Spec) *)

ScoreOps == {"track_window", "track_paste", "get_risk_score", "get_sessions"}

\* the step just taken is the handler `op`, answered with 200
Handled(op) == response'.op = op /\ response'.code = 200

\* a score evaluation of this step stored the immediate_lock directive
AppliesImmediateLock(session_id) ==
    /\ response'.op \in ScoreOps
    /\ response'.code = 200
    /\ ~In(LockDirective, Get(sessions, session_id).interventions)
    /\ In(LockDirective, Get(sessions', session_id).interventions)

ManualRequest(action) == Handled("manual_intervention") /\ response'.action = action

\* C1: for every session, over all API operations, `locked` goes from false to
\* true only in a step where a score evaluation applies an immediate_lock
\* directive or a manual lock is requested, and from true to false only in a
\* step that is a manual unlock request.
C1_LockedChangesOnlyByLockOrUnlock ==
    [][\A session_id \in SessionIds :
          (Has(sessions, session_id) /\ Has(sessions', session_id)) =>
              /\ (~Get(sessions, session_id).locked /\ Get(sessions', session_id).locked)
                     => (AppliesImmediateLock(session_id) \/ ManualRequest("lock"))
              /\ (Get(sessions, session_id).locked /\ ~Get(sessions', session_id).locked)
                     => ManualRequest("unlock")]_vars

\* the response of a request that ran get_ml_risk_score and returned its result
Evaluated ==
    /\ response.op \in {"track_window", "track_paste", "get_risk_score"}
    /\ response.code = 200

\* C2: whenever a score evaluation obtains from the intervention policy a
\* directive whose action is immediate_lock, the session's `locked` flag (the
\* 'locked' the evaluation returns, read from the session at its end) is true.
C2_ImmediateLockLeavesLocked ==
    (Evaluated /\ In(LockDirective, response.interventions)) => response.locked

NoTwoEqual(list) == \A i, j \in 1..Len(list) : list[i] = list[j] => i = j

Issued(list) == SelectSeq(list, LAMBDA e : e.action # None)

C4_ScoreReturnedInRange ==
    (response.op = "get_report" /\ response.code # 400) =>
        /\ response.code = 200
        /\ response.analysis.risk_score >= 0
        /\ response.analysis.risk_score <= 100
        /\ response.analysis.detailed_analysis.window_score >= 0
        /\ response.analysis.detailed_analysis.paste_score >= 0
        /\ response.analysis.detailed_analysis.typing_score >= 0
        /\ response.analysis.detailed_analysis.mouse_score >= 0
        /\ response.analysis.detailed_analysis.temporal_score >= 0

\* C8: a session record with a missing optional field (a keyboard event without
\* typing_speed, a blur event stored without duration) never makes a score
\* evaluation raise: no scoring request ends in an error.
C8_MissingFieldNeverRaises ==
    response.op \in (ScoreOps \cup {"get_report"}) => response.code # 500

IsPrefix(s, t) == Len(s) <= Len(t) /\ SubSeq(t, 1, Len(s)) = s

\* C10: for every session, once created, each of the five event sequences only
\* grows: its value before any step is a prefix of its value after it.
C10_EventSequencesAppendOnly ==
    [][\A session_id \in SessionIds :
          Has(sessions, session_id) =>
              /\ Has(sessions', session_id)
              /\ IsPrefix(Get(sessions, session_id).mouse_events,
                          Get(sessions', session_id).mouse_events)
              /\ IsPrefix(Get(sessions, session_id).keyboard_events,
                          Get(sessions', session_id).keyboard_events)
              /\ IsPrefix(Get(sessions, session_id).window_events,
                          Get(sessions', session_id).window_events)
              /\ IsPrefix(Get(sessions, session_id).paste_events,
                          Get(sessions', session_id).paste_events)
              /\ IsPrefix(Get(sessions, session_id).copy_events,
                          Get(sessions', session_id).copy_events)]_vars

\* what a score evaluation leaves of a session record: everything but
\* `interventions`, which it may extend, and `locked`
Framed(before, after) ==
    /\ after.session_id = before.session_id
    /\ after.start_time = before.start_time
    /\ after.mouse_events = before.mouse_events
    /\ after.keyboard_events = before.keyboard_events
    /\ after.window_events = before.window_events
    /\ after.paste_events = before.paste_events
    /\ after.copy_events = before.copy_events
    /\ after.flags = before.flags
    /\ IsPrefix(before.interventions, after.interventions)

\* the step just taken is a request that only evaluates scores
EvaluatesOnly == response'.op \in {"get_risk_score", "get_sessions"}

\* C11: a score evaluation (a risk_score or sessions request, whatever its
\* outcome) leaves every session's start_time, five event sequences and flags
\* unchanged and changes at most `interventions`, by appending, and `locked`;
\* a report request changes no session field at all.
C11_ScoreAndReportFrame ==
    [][/\ EvaluatesOnly =>
              /\ Len(sessions') = Len(sessions)
              /\ \A i \in 1..Len(sessions) : Framed(sessions[i], sessions'[i])
       /\ response'.op = "get_report" => sessions' = sessions]_vars

\* two pastes were answered with the warning; later a risk_score request found
\* the idle session critical: the lock directive follows the warning, the
\* session is locked, its two paste events and two flags are as they were
C11_Witness_EvaluationStoredLock ==
    /\ response.op = "get_risk_score"
    /\ response.code = 200
    /\ response.interventions = <<LockDirective>>
    /\ response.locked
    /\ \E i \in 1..Len(sessions) :
          /\ sessions[i].locked
          /\ sessions[i].interventions = <<WarningDirective, LockDirective>>
          /\ Len(sessions[i].flags) = 2
          /\ Len(sessions[i].paste_events) = 2

----------------------------------------------------------------------------
(* Claims about the scoring engine (specification SpecScore) *)

Analysed200 == response.op = "get_report" /\ response.code = 200

Twice200 ==
    /\ response.op = "get_report_twice"
    /\ response.first.code = 200
    /\ response.second.code = 200

\* the severity the claim assigns to a score
Ladder(score) ==
    CASE score > 70 -> "critical"
      [] score > 50 /\ score <= 70 -> "high"
      [] score > 30 /\ score <= 50 -> "medium"
      [] score <= 30 -> "low"

Rank(severity) ==
    CASE severity = "low" -> 0
      [] severity = "medium" -> 1
      [] severity = "high" -> 2
      [] severity = "critical" -> 3

\* C5: the severity calculate_risk_score returns is a function of the returned
\* risk_score alone (critical iff > 70, high iff in (50,70], medium iff in
\* (30,50], low iff <= 30), so of two analyses the one with the higher score
\* never has the lower severity.
C5_SeverityIsLadderOfScore ==
    /\ Analysed200 => response.analysis.severity = Ladder(response.analysis.risk_score)
    /\ Twice200 =>
           (response.first.analysis.risk_score < response.second.analysis.risk_score
                => Rank(response.first.analysis.severity)
                       <= Rank(response.second.analysis.severity))

\* a sum above 100 is capped and graded critical; a score of exactly 50 is medium
C5_Witness_Boundary ==
    /\ Twice200
    /\ response.first.analysis.risk_score = 50
    /\ response.first.analysis.severity = "medium"
    /\ response.second.analysis.risk_score = 60
    /\ response.second.analysis.severity = "high"

\* the session of C7: no window, paste, keyboard or copy events, under 5 mouse events
Quiet(session) ==
    /\ session.window_events = <<>>
    /\ session.paste_events = <<>>
    /\ session.keyboard_events = <<>>
    /\ session.copy_events = <<>>
    /\ Len(session.mouse_events) < 5

\* the analysis of C7: mouse 15, all else 0, score 15, low, one factor
OnlyLowMouseActivity(analysis) ==
    /\ analysis.detailed_analysis.mouse_score = 15
    /\ analysis.detailed_analysis.window_score = 0
    /\ analysis.detailed_analysis.paste_score = 0
    /\ analysis.detailed_analysis.typing_score = 0
    /\ analysis.detailed_analysis.temporal_score = 0
    /\ analysis.risk_score = 15
    /\ analysis.severity = "low"
    /\ Len(analysis.risk_factors) = 1

\* C7 as stated: a session with no window, paste, keyboard or copy events and
\* fewer than 5 mouse events scores, at any evaluation time, mouse 15 and
\* nothing else: risk_score 15, severity low, exactly one factor string.
C7_QuietSessionScores15 ==
    \A i \in 1..Len(sessions) :
        (Analysed200 /\ Quiet(sessions[i])) => OnlyLowMouseActivity(response.analysis)

\* the evaluation is more than 1800 seconds after a parsable start_time
Idle(session, now) == session.start_time.kind = "ok" /\ now - session.start_time.t > 1800

\* C7 amended: such a session scores mouse 15, window, paste and typing 0 and
\* severity low; evaluated no later than 1800 seconds after its start_time (or
\* with no parsable start_time) the temporal contribution is 0, the risk_score
\* 15 and there is exactly one factor string; evaluated later the temporal
\* contribution is 10, the risk_score 25 and there are two factor strings.
C7_QuietSessionScores15UntilIdle ==
    \A i \in 1..Len(sessions) :
        (Analysed200 /\ Quiet(sessions[i])) =>
            IF Idle(sessions[i], response.report.timestamp)
            THEN /\ response.analysis.detailed_analysis =
                        [window_score |-> 0, paste_score |-> 0, typing_score |-> 0,
                         mouse_score |-> 15, temporal_score |-> 10]
                 /\ response.analysis.risk_score = 25
                 /\ response.analysis.severity = "low"
                 /\ Len(response.analysis.risk_factors) = 2
            ELSE OnlyLowMouseActivity(response.analysis)

\* a quiet session with some mouse events, scored 1000 seconds after its start
C7_Witness_QuietBeforeIdle ==
    /\ Analysed200
    /\ Quiet(sessions[1])
    /\ Len(sessions[1].mouse_events) = 4
    /\ sessions[1].start_time.kind = "ok"
    /\ response.report.timestamp = 1000
    /\ response.analysis.risk_score = 15

TotalPasted(paste_events) ==
    SumSeq([i \in 1..Len(paste_events) |-> Val(paste_events[i].length)])

\* the tier the claim assigns to a number of paste events
ClaimedTier(n) ==
    CASE n = 0 -> 0
      [] n = 1 -> 25
      [] n \in {2, 3} -> 35
      [] n > 3 -> 50

\* the bonus the claim assigns to a list of paste events
ClaimedBonus(paste_events) ==
    IF Len(paste_events) >= 1 /\ TotalPasted(paste_events) > 500 THEN 15 ELSE 0

\* C13: the paste contribution reported in detailed_analysis is a function of
\* the session's paste events alone: tier (0 for none, 25 for one, 35 for two
\* or three, 50 for more) plus bonus (15 iff the lengths sum to more than 500);
\* four paste events summing to 600 give 65 whatever the other lists hold.
C13_PasteContributionIsTierPlusBonus ==
    \A i \in 1..Len(sessions) :
        Analysed200 =>
            /\ response.analysis.detailed_analysis.paste_score
                   = ClaimedTier(Len(sessions[i].paste_events))
                         + ClaimedBonus(sessions[i].paste_events)
            /\ (Len(sessions[i].paste_events) = 4
                    /\ TotalPasted(sessions[i].paste_events) = 600)
                   => response.analysis.detailed_analysis.paste_score = 65

\* four pastes of 150 characters in a session that also has window, keyboard,
\* mouse and copy events, scored after half an hour: the paste contribution is 65
C13_Witness_FourPastesOf150 ==
    /\ Analysed200
    /\ sessions[1].paste_events = Repeat(4, Paste(150))
    /\ sessions[1].window_events # <<>>
    /\ sessions[1].keyboard_events # <<>>
    /\ sessions[1].mouse_events # <<>>
    /\ sessions[1].copy_events # <<>>
    /\ response.report.timestamp = 2000
    /\ response.analysis.detailed_analysis.paste_score = 65
    /\ response.analysis.detailed_analysis.window_score > 0

----------------------------------------------------------------------------
(* Claims about concurrent requests (specification SpecThreads) *)

Common(s, t) == \E i \in 1..Len(s), j \in 1..Len(t) : s[i] = t[j]

\* C12: requests on one session are serialized, so of the score evaluations
\* arriving concurrently for it no two both pass the `not in` test and both
\* append the same directive, and the session of an evaluation that appended
\* the lock directive and returned is locked.
C12_NoTwoEvaluationsAppendSameDirective ==
    /\ \A t, u \in Threads :
           t # u => ~Common(response.threads[t].appended, response.threads[u].appended)
    /\ \A t \in Threads :
           (response.threads[t].pc = "done" /\ In(LockDirective, response.threads[t].appended))
               => Get(sessions, "s1").locked /\ response.threads[t].locked

----------------------------------------------------------------------------
(* Claims about the intervention policy (specification SpecIntervene) *)

Actions(interventions) == [i \in 1..Len(interventions) |-> interventions[i].action]

\* the directive list the claim assigns to a pair, by its actions
Tier(risk_score, severity) ==
    IF severity = "critical" \/ risk_score > 70 THEN <<Some("immediate_lock")>>
    ELSE IF severity = "high" \/ risk_score > 50 THEN <<Some("show_warning")>>
    ELSE IF severity = "medium" \/ risk_score > 30 THEN <<Some("show_caution")>>
    ELSE <<>>

\* C6: for every (risk_score, severity) pair should_intervene returns at most
\* one directive, that of the first matching tier: immediate_lock for critical
\* or > 70, else show_warning for high or > 50, else show_caution for medium or
\* > 30, else none; (75, critical), (55, high), (20, low) give immediate_lock,
\* show_warning and the empty list.
C6_OneDirectiveOfFirstTier ==
    response.op = "should_intervene" =>
        /\ Len(response.interventions) <= 1
        /\ Actions(response.interventions) = Tier(response.risk_score, response.severity)
        /\ (response.risk_score = 75 /\ response.severity = "critical")
               => Actions(response.interventions) = <<Some("immediate_lock")>>
        /\ (response.risk_score = 55 /\ response.severity = "high")
               => Actions(response.interventions) = <<Some("show_warning")>>
        /\ (response.risk_score = 20 /\ response.severity = "low")
               => response.interventions = <<>>

\* a score of 75 graded medium matches all three tiers and gets the lock alone
C6_Witness_FirstTierWins ==
    /\ response.op = "should_intervene"
    /\ response.risk_score = 75
    /\ response.severity = "medium"
    /\ response.interventions = <<LockDirective>>

====
